---- MODULE Spec2Model ----
(***************************************************************************)
(* The upload pipeline of src/app.py: upload_photo receives one image,     *)
(* send_to_yolo tries the detection endpoints in order, filter_detections  *)
(* keeps the detections at or above the threshold, process_yolo_results    *)
(* renders them, send_email_notification composes and sends the mail, and  *)
(* upload_photo builds the HTTP response.                                  *)
(*                                                                         *)
(* Spec is one upload through the whole pipeline.  SpecFilter, SpecRender, *)
(* SpecColours and SpecNotify are single calls of filter_detections,       *)
(* process_yolo_results and send_email_notification on wider inputs than   *)
(* the pipeline is run with, and SpecTwo is two uploads in progress at     *)
(* once.                                                                   *)
(*                                                                         *)
(* Confidences and the threshold are integers in units of 1/ConfScale.     *)
(***************************************************************************)
EXTENDS Integers, Sequences, FiniteSets, TLC

VARIABLES
    YOLO_API_URL,           \* app.py:22, "" when the variable is not set
    GMAIL_USER,             \* app.py:23
    GMAIL_PASSWORD,         \* app.py:24
    RECIPIENT_EMAIL,        \* app.py:25
    CONFIDENCE_THRESHOLD,   \* app.py:35
    pillow,                 \* app.py:11, the PIL the service runs with
    image_data,             \* the bytes of the upload
    pc,                     \* where the request is
    url_i,                  \* send_to_yolo: index of the next url of urls_to_try
    posts,                  \* the detection requests issued, in order
    yolo_result,            \* upload_photo's yolo_result
    filtered_detections,    \* upload_photo's filtered_detections
    annotated_image,        \* upload_photo's annotated_image
    notify_calls,           \* the calls of send_email_notification, in order
    msg,                    \* the message send_email_notification composed
    smtp,                   \* the SMTP sessions opened, in order
    email_sent,             \* upload_photo's email_sent
    response,               \* the HTTP response of the request
    suspended               \* a second request, in progress and not running

vars == <<YOLO_API_URL, GMAIL_USER, GMAIL_PASSWORD, RECIPIENT_EMAIL,
          CONFIDENCE_THRESHOLD, pillow, image_data, pc, url_i, posts, yolo_result,
          filtered_detections, annotated_image, notify_calls, msg, smtp,
          email_sent, response, suspended>>

\* what is fixed when the service starts: the settings and the libraries
config == <<YOLO_API_URL, GMAIL_USER, GMAIL_PASSWORD, RECIPIENT_EMAIL,
            CONFIDENCE_THRESHOLD, pillow>>

(***************************************************************************)
(* Bounds of the model.                                                    *)
(***************************************************************************)
\* confidences are 0..ConfScale, standing for 0 .. 1.0
ConfScale == 2
\* longest detection list a backend returns in the pipeline
MaxDets == 1
\* longest detection list handed to filter_detections on its own
MaxLen == 3

(***************************************************************************)
(* Python and JSON values.  A value is a record with one field naming its  *)
(* type, so that values of different types can be told apart.              *)
(***************************************************************************)
None == [none |-> TRUE]
JNum(n) == [num |-> n]
JStr(s) == [str |-> s]
JList(s) == [list |-> s]
JDict(f) == [dict |-> f]
EmptyMap == [k \in {} |-> None]

IsNum(v) == DOMAIN v = {"num"}
IsStr(v) == DOMAIN v = {"str"}
IsList(v) == DOMAIN v = {"list"}
IsDict(v) == DOMAIN v = {"dict"}

\* bool(v): None, an empty dict and an empty list are false
Truthy(v) ==
    /\ v # None
    /\ IsDict(v) => DOMAIN v.dict # {}
    /\ IsList(v) => v.list # <<>>

\* d.get(key, default) of a dict
Get(d, key, default) ==
    IF key \in DOMAIN d.dict THEN d.dict[key] ELSE default

\* d[key] = value
Put(d, key, value) ==
    JDict([k \in DOMAIN d.dict \cup {key} |->
              IF k = key THEN value ELSE d.dict[k]])

\* the result of a call that raised, and of one that returned
Raised == [raised |-> TRUE]
Returned(v) == [raised |-> FALSE, value |-> v]

\* an environment variable that is not set (os.environ.get gives None, false)
NotSet == ""

(***************************************************************************)
(* Images.  PIL decodes "jpeg", "png_rgba" and "tga"; an RGBA image cannot *)
(* be saved as JPEG; email.mime.image cannot guess the subtype of a TGA.   *)
(* width and height are the size of the image the bytes decode to.         *)
(***************************************************************************)
Picture(f, w, h) == [fmt |-> f, width |-> w, height |-> h]
Bytes(f) == Picture(f, 40, 30)
EmptyBytes == Bytes("empty")
Uploads == {Bytes(f) : f \in {"empty", "garbage", "jpeg", "png_rgba", "tga"}}

\* Image.open that accepts any non-empty bytes
DecodableAny(img) == img.fmt # "empty"

\* app.py:79 Image.open succeeds
Decodable(img) == img.fmt \in {"jpeg", "png_rgba", "tga"}
\* app.py:289 image.save(format='JPEG') succeeds
JpegEncodable(img) == img.fmt \in {"jpeg", "tga"}
\* app.py:389 MIMEImage(image_data) can guess the image subtype
MimeGuessable(img) == img.fmt \in {"jpeg", "png_rgba", "annotated"}

\* PIL as installed: the extent ImageDraw.textbbox gives a label in the font
\* that was found (app.py:198-215, 253-259), and whether ImageDraw.rectangle
\* raises ValueError for x1 < x0 or y1 < y0 (Pillow from 9.5 on) or takes it
Pillow(tw, th, strict) ==
    [text_width |-> tw, text_height |-> th, ordered_only |-> strict]

PipelinePillows == {Pillow(20, 8, strict) : strict \in BOOLEAN}

(***************************************************************************)
(* Configuration, app.py:21-35.                                            *)
(***************************************************************************)
YOLO_BACKUP_URLS ==
    << "http://127.0.0.1:5001/detect",
       "http://localhost:5001/detect",
       "http://127.0.0.1:8000/detect" >>

PrimaryUrls == {NotSet, "http://yolo.lan:5001/detect", "http://127.0.0.1:5001/detect"}

RECURSIVE SelectTruthy(_)
SelectTruthy(s) ==
    IF s = <<>> THEN <<>>
    ELSE IF Head(s) # NotSet THEN <<Head(s)>> \o SelectTruthy(Tail(s))
    ELSE SelectTruthy(Tail(s))

\* app.py:152
urls_to_try == SelectTruthy(<<YOLO_API_URL>> \o YOLO_BACKUP_URLS)

(***************************************************************************)
(* What a detection backend can answer.                                    *)
(***************************************************************************)
GoodBox == JList(<<JNum(1), JNum(1), JNum(2), JNum(2)>>)

\* a detection entry with a class, a confidence and a box
Det(class, confidence) ==
    JDict([class |-> class, confidence |-> confidence, bbox |-> GoodBox])
\* a detection entry without a confidence
DetNoConf(class) == JDict([class |-> class, bbox |-> GoodBox])
\* a box with the corners (x1, y1) and (x2, y2)
Box(x1, y1, x2, y2) == JList(<<JNum(x1), JNum(y1), JNum(x2), JNum(y2)>>)
\* a detection entry with the given value under bbox
DetBox(class, confidence, bbox) ==
    JDict([class |-> class, confidence |-> confidence, bbox |-> bbox])

Confidences == 0..ConfScale

\* app.py:35 float(os.environ.get('CONFIDENCE_THRESHOLD', '0.5')): any number
\* the environment gives, also one below 0 or above 1
Thresholds == (0 - 1)..(ConfScale + 1)

\* the entries of the detection list of a backend in the pipeline: well-formed
\* ones, one without confidence, and malformed ones (not a record, a
\* confidence that is no number, a class that is no string, a box whose
\* corners are not ordered, a box with a coordinate that is no number)
PipelineEntries ==
    {Det(JStr("person"), JNum(c)) : c \in Confidences}
        \cup {DetNoConf(JStr("person"))}
        \cup {JNum(5), Det(JStr("person"), JStr("high")), Det(JNum(7), JNum(ConfScale))}
        \cup {DetBox(JStr("person"), JNum(ConfScale), Box(20, 20, 10, 10)),
              DetBox(JStr("person"), JNum(ConfScale),
                     JList(<<JStr("left"), JNum(1), JNum(2), JNum(2)>>))}

SeqsUpTo(S, n) == UNION {[1..k -> S] : k \in 0..n}

\* the body of an answer whose JSON cannot be parsed
Unparseable == [unparseable |-> TRUE]

\* bodies that parse to a record whose detections, if any, are a list
RecordBodies ==
    {JDict(EmptyMap), JDict([status |-> JStr("ok")])}
        \cup {JDict([detections |-> JList(s)]) : s \in SeqsUpTo(PipelineEntries, MaxDets)}

\* bodies of a 200 answer that send_to_yolo cannot use
BadBodies == {Unparseable, JList(<<>>), JDict([detections |-> JNum(3)])}

\* len(v) is defined
HasLen(v) == IsList(v) \/ IsDict(v) \/ IsStr(v)

\* result['detections'] in place of result.get('detections', [])
ParseBodyStrict(body) ==
    IF body = Unparseable THEN Raised
    ELSE IF ~IsDict(body) THEN Raised
    ELSE IF "detections" \notin DOMAIN body.dict THEN Raised
    ELSE IF ~HasLen(body.dict["detections"]) THEN Raised
    ELSE Returned(body)

\* app.py:167-168 result = response.json(); len(result.get('detections', []))
ParseBody(body) ==
    IF body = Unparseable THEN Raised
    ELSE IF ~IsDict(body) THEN Raised
    ELSE IF ~HasLen(Get(body, "detections", JList(<<>>))) THEN Raised
    ELSE Returned(body)

(***************************************************************************)
(* filter_detections, app.py:134-148.                                      *)
(***************************************************************************)
\* a strict comparison with the threshold
AcceptsStrict(confidence) == confidence > CONFIDENCE_THRESHOLD

\* app.py:141
Accepts(confidence) == confidence >= CONFIDENCE_THRESHOLD

\* app.py:139-142, the loop over all_detections
RECURSIVE FilterLoop(_, _)
FilterLoop(dets, filtered) ==
    IF dets = <<>> THEN Returned(filtered)
    ELSE LET detection == Head(dets) IN
         IF ~IsDict(detection) THEN Raised
         ELSE LET confidence == Get(detection, "confidence", JNum(0)) IN
              IF ~IsNum(confidence) THEN Raised
              ELSE FilterLoop(Tail(dets),
                              IF Accepts(confidence.num)
                              THEN Append(filtered, detection)
                              ELSE filtered)

\* the call: raised, or the returned list and yolo_result with all_detections
filter_detections(result) ==
    LET all_detections == Get(result, "detections", JList(<<>>))
        loop == FilterLoop(all_detections.list, <<>>)
    IN  IF loop.raised THEN Raised
        ELSE [raised |-> FALSE,
              value |-> loop.value,
              result |-> Put(result, "all_detections", all_detections)]

(***************************************************************************)
(* process_yolo_results, app.py:190-297.                                   *)
(***************************************************************************)
\* app.py:236
HasBox(detection) ==
    LET bbox == Get(detection, "bbox", JList(<<>>))
    IN  IsList(bbox) /\ Len(bbox.list) = 4

RECURSIVE Drawn(_)
\* app.py:225-267, the detections whose box and label are drawn
Drawn(dets) ==
    IF dets = <<>> THEN <<>>
    ELSE IF HasBox(Head(dets)) THEN <<Head(dets)>> \o Drawn(Tail(dets))
    ELSE Drawn(Tail(dets))

\* app.py:219
colors == <<"red", "blue", "green", "yellow", "purple", "orange", "cyan", "magenta">>

\* app.py:232-234: class_colors is the sequence of the classes seen so far,
\* each with the colour it was given
Known(class_colors, class_name) ==
    \E j \in DOMAIN class_colors : class_colors[j].class = class_name

Assign(class_colors, class_name) ==
    IF Known(class_colors, class_name) THEN class_colors
    ELSE Append(class_colors,
                [class |-> class_name,
                 color |-> colors[(Len(class_colors) % Len(colors)) + 1]])

ColorOf(class_colors, class_name) ==
    LET j == CHOOSE k \in DOMAIN class_colors : class_colors[k].class = class_name
    IN  class_colors[j].color

\* a lower limit only: max(0, v)
ClampBelow(v, size) == IF v > 0 THEN v ELSE 0

\* app.py:241-244, max(0, min(v, size))
Clamp(v, size) ==
    LET low == IF v < size THEN v ELSE size
    IN  IF low > 0 THEN low ELSE 0

\* app.py:237-267 for one detection whose box has four entries: the outline,
\* the filled background of the label and the place of its text; Raised
\* when a coordinate or the confidence is no number (int(), the format
\* '.1%'), or the box is not ordered and ImageDraw.rectangle refuses it
DrawBox(img, detection, color) ==
    LET bbox == Get(detection, "bbox", JList(<<>>)).list
        confidence == Get(detection, "confidence", JNum(0))
        x1 == Clamp(bbox[1].num, img.width)
        y1 == Clamp(bbox[2].num, img.height)
        x2 == Clamp(bbox[3].num, img.width)
        y2 == Clamp(bbox[4].num, img.height)
        text_y == IF y1 - pillow.text_height - 5 > 0
                  THEN y1 - pillow.text_height - 5 ELSE 0
    IN  IF \E k \in 1..4 : ~IsNum(bbox[k]) THEN Raised            \* app.py:237
        ELSE IF pillow.ordered_only /\ (x2 < x1 \/ y2 < y1)
        THEN Raised                                                \* app.py:247
        ELSE IF ~IsNum(confidence) THEN Raised                     \* app.py:250
        ELSE Returned(
               [detection |-> detection,
                color |-> color,
                outline |-> <<x1, y1, x2, y2>>,
                label_bg |-> <<x1, text_y, x1 + pillow.text_width + 10,
                               text_y + pillow.text_height + 5>>,
                text_at |-> <<x1 + 5, text_y + 2>>])

RECURSIVE DrawDetectionsBoxFirst(_, _, _, _)
\* a loop that gives a class its colour only under 'if len(bbox) == 4'
DrawDetectionsBoxFirst(img, dets, class_colors, shapes) ==
    IF dets = <<>> THEN Returned(shapes)
    ELSE LET detection == Head(dets) IN
         IF ~IsDict(detection) THEN Raised
         ELSE LET class_name == Get(detection, "class", JStr("Unknown"))
                  bbox == Get(detection, "bbox", JList(<<>>))
                  assigned == Assign(class_colors, class_name)
              IN  IF ~IsList(bbox) THEN Raised
                  ELSE IF Len(bbox.list) # 4
                  THEN DrawDetectionsBoxFirst(img, Tail(dets), class_colors, shapes)
                  ELSE IF IsList(class_name) \/ IsDict(class_name) THEN Raised
                  ELSE LET box == DrawBox(img, detection,
                                          ColorOf(assigned, class_name))
                       IN  IF box.raised THEN Raised
                           ELSE DrawDetectionsBoxFirst(img, Tail(dets), assigned,
                                                       Append(shapes, box.value))

RECURSIVE DrawDetections(_, _, _, _)
\* the loop of app.py:225-267: the shapes drawn so far, or Raised
DrawDetections(img, dets, class_colors, shapes) ==
    IF dets = <<>> THEN Returned(shapes)
    ELSE LET detection == Head(dets) IN
         IF ~IsDict(detection) THEN Raised                         \* app.py:227
         ELSE LET class_name == Get(detection, "class", JStr("Unknown"))
                  bbox == Get(detection, "bbox", JList(<<>>))
                  assigned == Assign(class_colors, class_name)
              IN  IF IsList(class_name) \/ IsDict(class_name)
                  THEN Raised                      \* app.py:232, unhashable
                  ELSE IF ~IsList(bbox) THEN Raised                \* app.py:236
                  ELSE IF Len(bbox.list) # 4
                  THEN DrawDetections(img, Tail(dets), assigned, shapes)
                  ELSE LET box == DrawBox(img, detection,
                                          ColorOf(assigned, class_name))
                       IN  IF box.raised THEN Raised
                           ELSE DrawDetections(img, Tail(dets), assigned,
                                               Append(shapes, box.value))

\* an overlay that counts the boxes drawn in place of the detections
AnnotatedCountsDrawn(img, dets) ==
    [fmt |-> "annotated", of |-> img.fmt,
     width |-> img.width, height |-> img.height,
     boxes |-> Drawn(dets),
     shapes |-> DrawDetections(img, dets, <<>>, <<>>).value,
     summary |-> Len(Drawn(dets))]

\* the annotated JPEG of app.py:288-293
Annotated(img, dets) ==
    [fmt |-> "annotated", of |-> img.fmt,
     width |-> img.width, height |-> img.height,
     boxes |-> Drawn(dets),
     shapes |-> DrawDetections(img, dets, <<>>, <<>>).value,
     summary |-> Len(dets)]

\* a renderer without the handler of app.py:295-297: nothing comes back when
\* a step raises
RenderWithoutFallback(img, result) ==
    LET detections == Get(result, "detections", JList(<<>>)).list
    IN  IF DrawDetections(img, detections, <<>>, <<>>).raised THEN None
        ELSE IF ~JpegEncodable(img) THEN None
        ELSE Annotated(img, detections)

\* app.py:190-297
process_yolo_results(img, result) ==
    LET detections == Get(result, "detections", JList(<<>>)).list
    IN  IF DrawDetections(img, detections, <<>>, <<>>).raised
        THEN img                            \* app.py:295-297
        ELSE IF ~JpegEncodable(img) THEN img     \* app.py:289, 295-297
        ELSE Annotated(img, detections)

(***************************************************************************)
(* send_email_notification, app.py:299-421.                                *)
(***************************************************************************)
\* app.py:381, low_conf_detections[:5]
LowConfLimit == 5

\* app.py:303, all([GMAIL_USER, GMAIL_PASSWORD, RECIPIENT_EMAIL])
ConfigComplete ==
    GMAIL_USER # NotSet /\ GMAIL_PASSWORD # NotSet /\ RECIPIENT_EMAIL # NotSet

RECURSIVE LowConf(_)
\* app.py:377-378, [d for d in all_detections if d.get('confidence', 0) < T]
LowConf(dets) ==
    IF dets = <<>> THEN <<>>
    ELSE IF Get(Head(dets), "confidence", JNum(0)).num < CONFIDENCE_THRESHOLD
         THEN <<Head(dets)>> \o LowConf(Tail(dets))
         ELSE LowConf(Tail(dets))

\* s[:n]
Take(s, n) == SubSeq(s, 1, IF Len(s) < n THEN Len(s) ELSE n)

\* app.py:365-367 and 382-384: class_name.title() and f"{confidence:.1%}" work
Listable(detection) ==
    /\ IsStr(Get(detection, "class", JStr("Unknown")))
    /\ IsNum(Get(detection, "confidence", JNum(0)))

\* a subject that looks at the number of detections before yolo_failed
SubjectCountFirst(result, yolo_failed) ==
    LET detection_count == Len(Get(result, "detections", JList(<<>>)).list)
    IN  IF detection_count > 0
        THEN [kind |-> "Objects Detected", found |-> detection_count]
        ELSE IF yolo_failed THEN [kind |-> "Motion Detected (YOLO Offline)"]
        ELSE [kind |-> "Motion Detected (No objects)"]

\* app.py:314-322
Subject(result, yolo_failed) ==
    IF yolo_failed THEN [kind |-> "Motion Detected (YOLO Offline)"]
    ELSE LET detection_count == Len(Get(result, "detections", JList(<<>>)).list)
         IN  IF detection_count > 0
             THEN [kind |-> "Objects Detected", found |-> detection_count]
             ELSE [kind |-> "Motion Detected (No objects)"]

\* app.py:325-384
Body(result, yolo_failed) ==
    IF yolo_failed
    THEN [kind |-> "MOTION DETECTION ALERT", primary |-> YOLO_API_URL,
          processing |-> "Bypassed"]
    ELSE LET detections == Get(result, "detections", JList(<<>>))
             detection_count == Len(detections.list)
             total_detections == Len(Get(result, "all_detections", detections).list)
             low_conf_detections ==
                 LowConf(Get(result, "all_detections", JList(<<>>)).list)
         IN  [kind |-> "OBJECT DETECTION REPORT",
              high |-> detection_count,
              total |-> total_detections,
              threshold |-> CONFIDENCE_THRESHOLD,
              text |-> IF detection_count > 0 THEN "DETECTED OBJECTS"
                       ELSE IF total_detections > 0 THEN "objects detected but below threshold"
                       ELSE "No objects detected in this image",
              listed |-> detections.list,
              low_conf_count |-> Len(low_conf_detections),
              low_conf |-> Take(low_conf_detections, LowConfLimit)]

\* app.py:391-395
Filename(result, yolo_failed) ==
    IF yolo_failed THEN [kind |-> "motion_raw"]
    ELSE [kind |-> "detection",
          obj |-> Len(Get(result, "detections", JList(<<>>)).list)]

\* app.py:307-398: the composed message, or Raised when a step raises
Compose(img, result, yolo_failed) ==
    IF /\ ~yolo_failed
       /\ \/ \E i \in DOMAIN Body(result, yolo_failed).listed :
                ~Listable(Body(result, yolo_failed).listed[i])
          \/ \E i \in DOMAIN Body(result, yolo_failed).low_conf :
                ~Listable(Body(result, yolo_failed).low_conf[i])
    THEN Raised
    ELSE IF ~MimeGuessable(img) THEN Raised
    ELSE Returned([From |-> GMAIL_USER, To |-> RECIPIENT_EMAIL,
                   Subject |-> Subject(result, yolo_failed),
                   Body |-> Body(result, yolo_failed),
                   attachment |-> img,
                   filename |-> Filename(result, yolo_failed)])

\* what the mail server does with the session of app.py:402-407
MailOutcomes ==
    {"sent", "connect_error", "starttls_error", "auth_error", "send_error", "quit_error"}

\* app.py:402-407, the session: connect, starttls, login, sendmail, quit
Session(message, outcome) ==
    [host |-> "smtp.gmail.com", port |-> 587,
     login |-> IF outcome \in {"connect_error", "starttls_error"} THEN NotSet
               ELSE GMAIL_USER,
     sendmail |-> IF outcome \in {"sent", "send_error", "quit_error"}
                  THEN <<message>> ELSE <<>>,
     accepted |-> outcome \in {"sent", "quit_error"},
     outcome |-> outcome]

\* True as soon as sendmail has returned
SessionReturnAfterSendmail(outcome) == outcome \in {"sent", "quit_error"}

\* app.py:410-421, the value returned after the session
SessionReturn(outcome) ==
    CASE outcome = "sent" -> TRUE              \* app.py:410
      [] outcome = "auth_error" -> FALSE       \* app.py:412-414
      [] outcome \in {"starttls_error", "send_error", "quit_error"} -> FALSE \* app.py:415-417
      [] OTHER -> FALSE                        \* app.py:419-421

\* the call: the value returned, the message composed, the sessions opened
send_email_notification(img, result, yolo_failed, outcome) ==
    IF ~ConfigComplete
    THEN [ret |-> FALSE, msg |-> None, sessions |-> <<>>]          \* app.py:303-305
    ELSE LET composed == Compose(img, result, yolo_failed) IN
         IF composed.raised
         THEN [ret |-> FALSE, msg |-> None, sessions |-> <<>>]     \* app.py:419-421
         ELSE [ret |-> SessionReturn(outcome),
               msg |-> composed.value,
               sessions |-> <<Session(composed.value, outcome)>>]

(***************************************************************************)
(* upload_photo, app.py:59-132: one request.                               *)
(***************************************************************************)
Init ==
    /\ YOLO_API_URL \in PrimaryUrls
    /\ GMAIL_USER \in {NotSet, "cam@gmail.com"}
    /\ GMAIL_PASSWORD \in {NotSet, "app-password"}
    /\ RECIPIENT_EMAIL \in {NotSet, "owner@example.org"}
    /\ CONFIDENCE_THRESHOLD \in Thresholds
    /\ pillow \in PipelinePillows
    /\ image_data \in Uploads
    /\ pc = "main"
    /\ url_i = 1
    /\ posts = <<>>
    /\ yolo_result = None
    /\ filtered_detections = <<>>
    /\ annotated_image = None
    /\ notify_calls = <<>>
    /\ msg = None
    /\ smtp = <<>>
    /\ email_sent = FALSE
    /\ response = None
    /\ suspended = None

\* app.py:469-479, the start of the service: a missing mail or detection
\* setting is logged as a warning, the threshold is not looked at, and the
\* server starts taking uploads
Main ==
    /\ pc = "main"
    /\ pc' = "upload"
    /\ UNCHANGED <<config, suspended, image_data, url_i, posts, yolo_result,
                   filtered_detections, annotated_image, notify_calls, msg,
                   smtp, email_sent, response>>

\* app.py:72-73
ReceiveEmpty ==
    /\ pc = "upload"
    /\ image_data = EmptyBytes
    /\ response' = [code |-> 400, error |-> "No image data received"]
    /\ pc' = "done"
    /\ UNCHANGED <<config, suspended, image_data, url_i, posts, yolo_result,
                   filtered_detections, annotated_image, notify_calls, msg,
                   smtp, email_sent>>

\* app.py:78-84
ReceiveInvalid ==
    /\ pc = "upload"
    /\ image_data # EmptyBytes
    /\ ~Decodable(image_data)
    /\ response' = [code |-> 400, error |-> "Invalid image data"]
    /\ pc' = "done"
    /\ UNCHANGED <<config, suspended, image_data, url_i, posts, yolo_result,
                   filtered_detections, annotated_image, notify_calls, msg,
                   smtp, email_sent>>

\* app.py:78-87, the call of send_to_yolo
ReceiveValid ==
    /\ pc = "upload"
    /\ image_data # EmptyBytes
    /\ Decodable(image_data)
    /\ pc' = "send_to_yolo"
    /\ url_i' = 1
    /\ UNCHANGED <<config, suspended, image_data, posts, yolo_result,
                   filtered_detections, annotated_image, notify_calls, msg,
                   smtp, email_sent, response>>

\* a loop that asks the url it is at a second time
PostTwice(answered) ==
    LET request == [url |-> urls_to_try[url_i], pos |-> url_i, ok |-> answered]
    IN  Append(Append(posts, request), request)

\* the request of app.py:163 to the url the loop is at; answered tells whether
\* the endpoint gave status 200 and a body that is a detection record
Post(answered) ==
    Append(posts, [url |-> urls_to_try[url_i], pos |-> url_i, ok |-> answered])

\* app.py:163, 174-185: requests.post raises (Timeout, ConnectionError, another
\* RequestException or any other exception); the loop continues
PostRaises ==
    /\ pc = "send_to_yolo"
    /\ url_i <= Len(urls_to_try)
    /\ posts' = Post(FALSE)
    /\ url_i' = url_i + 1
    /\ UNCHANGED <<config, suspended, image_data, pc, yolo_result, filtered_detections,
                   annotated_image, notify_calls, msg, smtp, email_sent, response>>

\* app.py:165, 171-172: a status other than 200; the loop goes on
PostStatus ==
    /\ pc = "send_to_yolo"
    /\ url_i <= Len(urls_to_try)
    /\ posts' = Post(FALSE)
    /\ url_i' = url_i + 1
    /\ UNCHANGED <<config, suspended, image_data, pc, yolo_result, filtered_detections,
                   annotated_image, notify_calls, msg, smtp, email_sent, response>>

\* app.py:165-170, 180-185: status 200; the result is returned, unless reading
\* the body raises, and then the loop continues
Post200With(body) ==
    /\ pc = "send_to_yolo"
    /\ url_i <= Len(urls_to_try)
    /\ LET parsed == ParseBody(body) IN
       /\ posts' = Post(body \in RecordBodies)
       /\ IF parsed.raised
          THEN /\ url_i' = url_i + 1
               /\ UNCHANGED <<pc, yolo_result>>
          ELSE /\ yolo_result' = parsed.value
               /\ pc' = "process"
               /\ UNCHANGED url_i
    /\ UNCHANGED <<config, suspended, image_data, filtered_detections,
                   annotated_image, notify_calls, msg, smtp, email_sent, response>>

\* the endpoint answers with any of the bodies of the pipeline
Post200 == \E body \in RecordBodies \cup BadBodies : Post200With(body)

\* app.py:187-188
AllFailed ==
    /\ pc = "send_to_yolo"
    /\ url_i > Len(urls_to_try)
    /\ yolo_result' = None
    /\ pc' = "process"
    /\ UNCHANGED <<config, suspended, image_data, url_i, posts, filtered_detections,
                   annotated_image, notify_calls, msg, smtp, email_sent, response>>

\* app.py:89-95 when filter_detections raises, 130-132
DetectedRaises ==
    /\ pc = "process"
    /\ Truthy(yolo_result)
    /\ filter_detections(yolo_result).raised
    /\ response' = [code |-> 500, error |-> "exception"]
    /\ pc' = "done"
    /\ UNCHANGED <<config, suspended, image_data, url_i, posts, yolo_result,
                   filtered_detections, annotated_image, notify_calls, msg,
                   smtp, email_sent>>

\* app.py:89-95
Detected ==
    /\ pc = "process"
    /\ Truthy(yolo_result)
    /\ LET f == filter_detections(yolo_result) IN
       /\ ~f.raised
       /\ filtered_detections' = f.value
       /\ yolo_result' = Put(f.result, "detections", JList(f.value))
       /\ annotated_image' =
             process_yolo_results(image_data, Put(f.result, "detections", JList(f.value)))
    /\ pc' = "notify"
    /\ UNCHANGED <<config, suspended, image_data, url_i, posts, notify_calls, msg,
                   smtp, email_sent, response>>

\* a response that counts the list left in 'detections' as the total
SuccessResponseTotalOfAccepted(sent) ==
    [code |-> 200,
     status |-> "success",
     message |-> IF sent
                 THEN "Photo processed successfully and notification email sent"
                 ELSE "Photo processed successfully but email notification failed",
     detections |-> filtered_detections,
     detection_count |-> Len(filtered_detections),
     total_detections |-> Len(Get(yolo_result, "detections", JList(<<>>)).list),
     confidence_threshold |-> CONFIDENCE_THRESHOLD,
     email_sent |-> sent]

\* app.py:100-117
SuccessResponse(sent) ==
    [code |-> 200,
     status |-> "success",
     message |-> IF sent
                 THEN "Photo processed successfully and notification email sent"
                 ELSE "Photo processed successfully but email notification failed",
     detections |-> filtered_detections,
     detection_count |-> Len(filtered_detections),
     total_detections |-> Len(Get(yolo_result, "all_detections", JList(<<>>)).list),
     confidence_threshold |-> CONFIDENCE_THRESHOLD,
     email_sent |-> sent]

\* app.py:98-117
NotifyDetected ==
    /\ pc = "notify"
    /\ \E outcome \in MailOutcomes :
          LET r == send_email_notification(annotated_image, yolo_result, FALSE, outcome) IN
          /\ notify_calls' = Append(notify_calls,
                 [image |-> annotated_image, result |-> yolo_result, yolo_failed |-> FALSE])
          /\ msg' = r.msg
          /\ smtp' = smtp \o r.sessions
          /\ email_sent' = r.ret
          /\ response' = SuccessResponse(r.ret)
    /\ pc' = "done"
    /\ UNCHANGED <<config, suspended, image_data, url_i, posts, yolo_result,
                   filtered_detections, annotated_image>>

\* the call without yolo_failed=True
OfflineCallNoFlag ==
    [image |-> image_data,
     result |-> JDict([detections |-> JList(<<>>)]),
     yolo_failed |-> FALSE]

\* a call that takes the image from a place every request writes to, where
\* a second request in progress has left its upload
OfflineCallLatestUpload ==
    [image |-> IF suspended # None THEN suspended.locals.image_data ELSE image_data,
     result |-> JDict([detections |-> JList(<<>>)]),
     yolo_failed |-> TRUE]

\* app.py:120, the arguments of the call when send_to_yolo gave nothing
OfflineCall ==
    [image |-> image_data,
     result |-> JDict([detections |-> JList(<<>>)]),
     yolo_failed |-> TRUE]

\* app.py:122-128
PartialResponse(sent) ==
    [code |-> 200,
     status |-> "partial_success",
     message |-> "YOLO processing failed but email sent with original image",
     detections |-> <<>>,
     email_sent |-> sent]

\* app.py:118-128
NotifyOffline ==
    /\ pc = "process"
    /\ ~Truthy(yolo_result)
    /\ \E outcome \in MailOutcomes :
          LET c == OfflineCall
              r == send_email_notification(c.image, c.result, c.yolo_failed, outcome) IN
          /\ notify_calls' = Append(notify_calls, c)
          /\ msg' = r.msg
          /\ smtp' = smtp \o r.sessions
          /\ email_sent' = r.ret
          /\ response' = PartialResponse(r.ret)
    /\ pc' = "done"
    /\ UNCHANGED <<config, suspended, image_data, url_i, posts, yolo_result,
                   filtered_detections, annotated_image>>

Next ==
    \/ Main
    \/ ReceiveEmpty
    \/ ReceiveInvalid
    \/ ReceiveValid
    \/ PostRaises
    \/ PostStatus
    \/ Post200
    \/ AllFailed
    \/ DetectedRaises
    \/ Detected
    \/ NotifyDetected
    \/ NotifyOffline

Spec == Init /\ [][Next]_vars

(***************************************************************************)
(* filter_detections on its own: any detection list of well-formed entries *)
(* up to MaxLen and any threshold, then the call.                          *)
(***************************************************************************)
FilterEntries ==
    {Det(JStr(cl), JNum(c)) : cl \in {"person", "cat"}, c \in Confidences}
        \cup {DetNoConf(JStr(cl)) : cl \in {"person", "cat"}}

FilterInit ==
    /\ YOLO_API_URL = NotSet
    /\ GMAIL_USER = NotSet
    /\ GMAIL_PASSWORD = NotSet
    /\ RECIPIENT_EMAIL = NotSet
    /\ CONFIDENCE_THRESHOLD \in Confidences
    /\ pillow = Pillow(20, 8, TRUE)
    /\ image_data = Bytes("jpeg")
    /\ pc = "filter_detections"
    /\ url_i = 1
    /\ posts = <<>>
    /\ yolo_result \in {JDict(EmptyMap)}
          \cup {JDict([detections |-> JList(s)]) : s \in SeqsUpTo(FilterEntries, MaxLen)}
    /\ filtered_detections = <<>>
    /\ annotated_image = None
    /\ notify_calls = <<>>
    /\ msg = None
    /\ smtp = <<>>
    /\ email_sent = FALSE
    /\ response = None
    /\ suspended = None

\* app.py:91, filtered_detections = filter_detections(yolo_result)
FilterCall ==
    /\ pc = "filter_detections"
    /\ LET f == filter_detections(yolo_result) IN
       /\ ~f.raised
       /\ filtered_detections' = f.value
       /\ yolo_result' = f.result
    /\ pc' = "filtered"
    /\ UNCHANGED <<config, suspended, image_data, url_i, posts, annotated_image,
                   notify_calls, msg, smtp, email_sent, response>>

FilterNext == FilterCall

SpecFilter == FilterInit /\ [][FilterNext]_vars

(***************************************************************************)
(* What a run shows, in terms of the upload, the endpoints and the mail    *)
(* server, for stating the properties below.                               *)
(***************************************************************************)
ValidImage == image_data.fmt \in {"jpeg", "png_rgba", "tga"}

\* send_to_yolo has returned
YoloReturned == ValidImage /\ pc \in {"process", "notify", "done"}

\* some endpoint answered with status 200 and a detection record
SomeAnswered == \E i \in DOMAIN posts : posts[i].ok

\* every configured endpoint was asked and none answered
AllEndpointsFailed ==
    /\ YoloReturned
    /\ Len(posts) = Len(<<YOLO_API_URL>> \o YOLO_BACKUP_URLS)
                       - (IF YOLO_API_URL = NotSet THEN 1 ELSE 0)
    /\ ~SomeAnswered

\* the request went through the branch of app.py:118-128
OfflinePath == Len(notify_calls) = 1 /\ notify_calls[1].yolo_failed
\* the request went through the branch of app.py:89-117
DetectedPath == Len(notify_calls) = 1 /\ ~notify_calls[1].yolo_failed

\* the mail server took the message
Delivered == \E i \in DOMAIN smtp : smtp[i].accepted
\* the SMTP session ran to its end without an error
SessionSucceeded == \E i \in DOMAIN smtp : smtp[i].outcome = "sent"

MailConfigured ==
    GMAIL_USER # "" /\ GMAIL_PASSWORD # "" /\ RECIPIENT_EMAIL # ""

\* the backends kept to their contract: the offline branch was taken because
\* every endpoint failed, and every detection of the answer names its class
ContractRun ==
    /\ OfflinePath => AllEndpointsFailed
    /\ DetectedPath =>
          \A i \in DOMAIN notify_calls[1].result.dict["all_detections"].list :
              LET d == notify_calls[1].result.dict["all_detections"].list[i] IN
              "class" \in DOMAIN d.dict => DOMAIN d.dict["class"] = {"str"}

(***************************************************************************)
(* C1: the detection requests of one upload go to the configured endpoints *)
(* in their order, first the primary and then the backups, without gaps,   *)
(* and the endpoint that answers with status 200 and a detection record is *)
(* the last one asked: send_to_yolo returns there and asks no later        *)
(* endpoint; it asks all of them only when none answers.                   *)
(***************************************************************************)
C1_FailoverOrder ==
    /\ \A i \in DOMAIN posts :
          /\ posts[i].pos = i
          /\ posts[i].url = (<<YOLO_API_URL>> \o YOLO_BACKUP_URLS)
                               [i + (IF YOLO_API_URL = NotSet THEN 1 ELSE 0)]
          /\ posts[i].ok => (i = Len(posts) /\ pc # "send_to_yolo")
    /\ YoloReturned => (SomeAnswered \/ AllEndpointsFailed)
    /\ (YoloReturned /\ SomeAnswered) => yolo_result # None

\* the second of four endpoints is the first to answer
C1_Witness ==
    /\ pc = "done"
    /\ YOLO_API_URL # NotSet
    /\ Len(posts) = 2
    /\ ~posts[1].ok
    /\ posts[2].ok

(***************************************************************************)
(* C2: when detection succeeded, the status of the response is "success"   *)
(* exactly when the notification was delivered, and it is                  *)
(* "partialSuccessNoEmail" when it was not.                                *)
(***************************************************************************)
C2_StatusFollowsDelivery ==
    (pc = "done" /\ DetectedPath) =>
        /\ (response.status = "success") <=> Delivered
        /\ ~Delivered => response.status = "partialSuccessNoEmail"

(***************************************************************************)
(* C3: a valid upload takes the backend-unavailable path exactly when      *)
(* every configured endpoint failed; when an endpoint answered with a      *)
(* record of well-formed detections (also none, or no detections field)    *)
(* the request is filtered and rendered and reported as a success.         *)
(***************************************************************************)
C3_UnavailableIffAllFailed ==
    (pc = "done" /\ ValidImage) =>
        /\ OfflinePath <=> AllEndpointsFailed
        /\ (SomeAnswered /\ response.code = 200) =>
              /\ DetectedPath
              /\ response.status = "success"
              /\ annotated_image # None

(***************************************************************************)
(* C4: when every endpoint failed for a valid upload, send_to_yolo returns *)
(* None; send_email_notification is then called exactly once, with the     *)
(* uploaded bytes, unrendered, an empty detection list and yolo_failed;    *)
(* the message it composes is the YOLO-offline one with the upload         *)
(* attached.                                                               *)
(***************************************************************************)
C4_UnavailabilitySignalled ==
    AllEndpointsFailed =>
        /\ yolo_result = None
        /\ pc = "process" => notify_calls = <<>>
        /\ pc # "notify"
        /\ pc = "done" =>
              /\ Len(notify_calls) = 1
              /\ notify_calls[1].image = image_data
              /\ notify_calls[1].yolo_failed
              /\ notify_calls[1].result = JDict([detections |-> JList(<<>>)])
              /\ annotated_image = None
              /\ (MailConfigured /\ image_data.fmt # "tga") => msg # None
              /\ msg # None =>
                    /\ msg.Subject = [kind |-> "Motion Detected (YOLO Offline)"]
                    /\ msg.Body.kind = "MOTION DETECTION ALERT"
                    /\ msg.Body.processing = "Bypassed"
                    /\ msg.attachment = image_data
                    /\ msg.filename = [kind |-> "motion_raw"]

\* every endpoint failed and the offline message was composed
C4_Witness ==
    /\ pc = "done"
    /\ AllEndpointsFailed
    /\ Len(posts) = 4
    /\ notify_calls # <<>>
    /\ msg # None

(***************************************************************************)
(* C5: when every endpoint failed, the status of the response is           *)
(* "partial_success" whatever the mail did, and email_sent in the same     *)
(* response is true exactly when the mail session succeeded (so only when  *)
(* the mail server took the message).                                      *)
(***************************************************************************)
C5_BackendDownIndependent ==
    (pc = "done" /\ AllEndpointsFailed) =>
        /\ response.code = 200
        /\ response.status = "partial_success"
        /\ response.email_sent = SessionSucceeded
        /\ response.email_sent => Delivered
        /\ response.email_sent = email_sent

\* every endpoint failed and the mail login was refused
C5_Witness ==
    /\ pc = "done"
    /\ AllEndpointsFailed
    /\ smtp # <<>>
    /\ smtp[1].outcome = "auth_error"
    /\ response.status = "partial_success"
    /\ ~response.email_sent

(***************************************************************************)
(* C6: an upload that is empty or is no image ends with a 400 response;    *)
(* no detection request is issued, send_email_notification is not called,  *)
(* no message is composed and no SMTP session is opened.                   *)
(***************************************************************************)
C6_ClientErrorHalts ==
    image_data.fmt \in {"empty", "garbage"} =>
        /\ pc \in {"main", "upload", "done"}
        /\ pc = "done" => response.code = 400
        /\ posts = <<>>
        /\ notify_calls = <<>>
        /\ msg = None
        /\ smtp = <<>>
        /\ yolo_result = None

\* bytes that are no image were answered with 400
C6_Witness ==
    /\ pc = "done"
    /\ image_data = Bytes("garbage")
    /\ response.code = 400

(***************************************************************************)
(* C7: a valid upload never ends in a 500 response, whatever the endpoints *)
(* do; it ends in the success or the partial-success status.               *)
(***************************************************************************)
C7_OnlyClientErrorFatal ==
    (pc = "done" /\ ValidImage) =>
        /\ response.code = 200
        /\ response.status \in {"success", "partial_success"}

(***************************************************************************)
(* C8, under SpecFilter.  After filter_detections on a list L with a       *)
(* threshold t in 0..ConfScale: the returned list (accepted) and the       *)
(* entries of all_detections below the threshold (rejected, as             *)
(* app.py:377-378 selects them) hold together every entry of L as often as *)
(* L does; an accepted entry has confidence >= t, a rejected one < t, so   *)
(* none is in both; an entry without confidence counts as 0; each part is  *)
(* in the order of L.                                                      *)
(***************************************************************************)
\* the confidence of an entry, 0 when it has none
EffConf(d) ==
    IF "confidence" \in DOMAIN d.dict THEN d.dict["confidence"].num ELSE 0

\* how often e occurs in s
Count(s, e) == Cardinality({i \in DOMAIN s : s[i] = e})

RECURSIVE IsSubseq(_, _)
\* a is l with some entries left out
IsSubseq(a, l) ==
    IF a = <<>> THEN TRUE
    ELSE IF l = <<>> THEN FALSE
    ELSE IF Head(a) = Head(l) THEN IsSubseq(Tail(a), Tail(l))
    ELSE IsSubseq(a, Tail(l))

FilterInput == Get(yolo_result, "detections", JList(<<>>)).list
FilterRejected == LowConf(Get(yolo_result, "all_detections", JList(<<>>)).list)

C8_FilterPartition ==
    pc = "filtered" =>
        /\ "all_detections" \in DOMAIN yolo_result.dict
        /\ yolo_result.dict["all_detections"] = JList(FilterInput)
        /\ Len(filtered_detections) + Len(FilterRejected) = Len(FilterInput)
        /\ \A i \in DOMAIN FilterInput :
              Count(filtered_detections, FilterInput[i])
                  + Count(FilterRejected, FilterInput[i])
                  = Count(FilterInput, FilterInput[i])
        /\ \A i \in DOMAIN filtered_detections :
              EffConf(filtered_detections[i]) >= CONFIDENCE_THRESHOLD
        /\ \A i \in DOMAIN FilterRejected :
              EffConf(FilterRejected[i]) < CONFIDENCE_THRESHOLD
        /\ IsSubseq(filtered_detections, FilterInput)
        /\ IsSubseq(FilterRejected, FilterInput)

\* a list of three: an entry at the threshold is accepted, an entry without
\* confidence is rejected, and an accepted entry stands between two rejected
C8_Witness ==
    /\ pc = "filtered"
    /\ CONFIDENCE_THRESHOLD > 0
    /\ Len(FilterInput) = 3
    /\ Len(filtered_detections) = 1
    /\ EffConf(filtered_detections[1]) = CONFIDENCE_THRESHOLD
    /\ FilterInput[2] = filtered_detections[1]
    /\ "confidence" \notin DOMAIN FilterInput[1].dict
    /\ FilterRejected = <<FilterInput[1], FilterInput[3]>>

(***************************************************************************)
(* C9: the value send_email_notification returns tells an authentication   *)
(* failure, a transport failure and an incomplete configuration apart: the *)
(* value a request got for one of them is not the value the function       *)
(* returns for another of them (also when the backends keep to their       *)
(* contract).                                                              *)
(***************************************************************************)
\* why the notification of this request failed
NotifyFailure ==
    IF ~MailConfigured THEN "config_incomplete"
    ELSE IF smtp = <<>> THEN "not_composed"
    ELSE smtp[1].outcome

\* what send_email_notification returns for a failure
ReturnFor(failure) ==
    IF failure = "config_incomplete"
    THEN send_email_notification(Bytes("jpeg"), JDict(EmptyMap), TRUE, "sent").ret
    ELSE SessionReturn(failure)

C9_FailuresDistinguishable ==
    (pc = "done" /\ notify_calls # <<>> /\ ContractRun
        /\ NotifyFailure \in {"config_incomplete", "auth_error", "send_error"}) =>
        \A other \in {"config_incomplete", "auth_error", "send_error"} \ {NotifyFailure} :
            /\ email_sent # ReturnFor(other)
            /\ response.email_sent # ReturnFor(other)

(***************************************************************************)
(* C10: once send_email_notification has been called, no SMTP session was  *)
(* opened when the sender, the password or the recipient is missing, and   *)
(* exactly one was opened, to smtp.gmail.com:587, when all three are set;  *)
(* this in the detected and in the backend-unavailable branch, also when   *)
(* the backends keep to their contract.                                    *)
(***************************************************************************)
\* the half of C10 about a missing setting, which holds in every run
C10_IncompleteConfigNoSession == ~MailConfigured => (smtp = <<>> /\ msg = None)

C10_ConfigGatesTransport ==
    (pc = "done" /\ notify_calls # <<>> /\ ContractRun) =>
        /\ ~MailConfigured => smtp = <<>>
        /\ MailConfigured =>
              /\ Len(smtp) = 1
              /\ smtp[1].host = "smtp.gmail.com"
              /\ smtp[1].port = 587

(***************************************************************************)
(* C11: nothing is retried within one upload.  Every entry of the list of  *)
(* configured endpoints (the primary, then the backups) receives at most   *)
(* one detection request, so a url receives no more requests than the list *)
(* names it; notification is called at most once, at most one SMTP session *)
(* is opened and it hands over the message at most once, whatever the      *)
(* outcome of the requests and of the session, also when the session fails *)
(* after the message was handed over.                                      *)
(***************************************************************************)
\* how many entries of the sequence s satisfy Test
Occurrences(s, Test(_)) == Cardinality({i \in DOMAIN s : Test(s[i])})

C11_NoRetries ==
    /\ \A i, j \in DOMAIN posts : posts[i].pos = posts[j].pos => i = j
    /\ \A i \in DOMAIN posts :
          LET SameUrl(request) == request.url = posts[i].url
              Listed(url) == url = posts[i].url
          IN  Occurrences(posts, SameUrl)
                 <= Occurrences(<<YOLO_API_URL>> \o YOLO_BACKUP_URLS, Listed)
    /\ Len(posts) <= Len(<<YOLO_API_URL>> \o YOLO_BACKUP_URLS)
    /\ Len(notify_calls) <= 1
    /\ Len(smtp) <= 1
    /\ \A i \in DOMAIN smtp : Len(smtp[i].sendmail) <= 1

\* every endpoint was asked and failed, and the session failed after the
\* message was handed over: the request ended without a second attempt
C11_Witness ==
    /\ pc = "done"
    /\ YOLO_API_URL # NotSet
    /\ Len(posts) = Len(YOLO_BACKUP_URLS) + 1
    /\ ~SomeAnswered
    /\ Len(smtp) = 1
    /\ smtp[1].outcome = "quit_error"
    /\ Len(smtp[1].sendmail) = 1

(***************************************************************************)
(* C18: a confidence threshold outside [0, 1] is rejected when the service *)
(* starts, so that once the service takes uploads the threshold lies in    *)
(* [0, 1], and no upload is answered under a threshold below 0 or above 1. *)
(***************************************************************************)
C18_ThresholdValidated ==
    pc # "main" => CONFIDENCE_THRESHOLD \in Confidences

(***************************************************************************)
(* C15: the response to a processed upload lists the accepted detections,  *)
(* in the order the backend gave them; its detection count is the number   *)
(* of accepted detections, its total is the number of detections the       *)
(* backend returned, accepted and rejected together, and its threshold is  *)
(* the configured threshold.                                               *)
(***************************************************************************)
\* the list the backend returned, kept by filter_detections (app.py:136, 145)
RawDetections == yolo_result.dict["all_detections"].list

AtThreshold(d) == EffConf(d) >= CONFIDENCE_THRESHOLD
BelowThreshold(d) == EffConf(d) < CONFIDENCE_THRESHOLD

Limited(v, size) == IF v < 0 THEN 0 ELSE IF v > size THEN size ELSE v

\* the box of the detection has four entries and one of them is no number
BadCoordinate(d) ==
    /\ "bbox" \in DOMAIN d.dict
    /\ DOMAIN d.dict["bbox"] = {"list"}
    /\ Len(d.dict["bbox"].list) = 4
    /\ \E k \in 1..4 : DOMAIN d.dict["bbox"].list[k] # {"num"}

\* the box of the detection has four numbers and, limited to the canvas, its
\* second corner lies left of or above its first
UnorderedBox(d) ==
    /\ "bbox" \in DOMAIN d.dict
    /\ DOMAIN d.dict["bbox"] = {"list"}
    /\ Len(d.dict["bbox"].list) = 4
    /\ ~BadCoordinate(d)
    /\ LET b == d.dict["bbox"].list IN
       \/ Limited(b[3].num, image_data.width) < Limited(b[1].num, image_data.width)
       \/ Limited(b[4].num, image_data.height) < Limited(b[2].num, image_data.height)

\* upload_photo has called process_yolo_results (app.py:95)
RenderCalled ==
    /\ pc \in {"notify", "done"}
    /\ DOMAIN yolo_result = {"dict"}
    /\ "all_detections" \in DOMAIN yolo_result.dict

\* a step of the rendering raised
RenderFailed ==
    \/ image_data.fmt = "png_rgba"
    \/ \E i \in DOMAIN filtered_detections :
          \/ BadCoordinate(filtered_detections[i])
          \/ pillow.ordered_only /\ UnorderedBox(filtered_detections[i])

C14_RenderNeverFails ==
    RenderCalled =>
        /\ RenderFailed => annotated_image = image_data
        /\ ~RenderFailed => annotated_image.fmt = "annotated"
        /\ pc = "done" =>
              /\ Len(notify_calls) = 1
              /\ notify_calls[1].image = annotated_image
              /\ response.code = 200
              /\ response.status = "success"

\* a box with a coordinate that is no number: the mail went out with the
\* bytes of the upload and the request ended as a success
C14_Witness ==
    /\ pc = "done"
    /\ RenderCalled
    /\ image_data.fmt = "jpeg"
    /\ \E i \in DOMAIN filtered_detections : BadCoordinate(filtered_detections[i])
    /\ notify_calls[1].image = image_data
    /\ Delivered
    /\ response.status = "success"

\* the same for a box that PIL refuses because its corners are not ordered
C14_WitnessUnordered ==
    /\ pc = "done"
    /\ RenderCalled
    /\ image_data.fmt = "jpeg"
    /\ \E i \in DOMAIN filtered_detections : UnorderedBox(filtered_detections[i])
    /\ pillow.ordered_only
    /\ notify_calls[1].image = image_data
    /\ response.status = "success"

(***************************************************************************)
(* process_yolo_results alone, app.py:190-297: one call on an image of a   *)
(* given size and a list of accepted detections whose boxes lie inside,    *)
(* across and outside the canvas, ordered or not, with four coordinates or *)
(* fewer, under a PIL whose label text is narrow or wide.                  *)
(***************************************************************************)
RenderXs == {0 - 5, 10, 35, 45}
RenderYs == {0 - 5, 10, 45}

RenderEntries ==
    {DetBox(JStr("person"), JNum(ConfScale), Box(x1, y1, x2, y2)) :
        x1 \in RenderXs, y1 \in RenderYs, x2 \in RenderXs, y2 \in RenderYs}
      \cup {DetBox(JStr("person"), JNum(ConfScale), JList(<<>>)),
            DetBox(JStr("person"), JNum(ConfScale),
                   JList(<<JNum(10), JNum(10), JNum(35)>>)),
            JDict([class |-> JStr("person"), confidence |-> JNum(ConfScale)])}

RenderPillows ==
    {Pillow(tw, 8, strict) : tw \in {20, 50}, strict \in BOOLEAN}

RenderInit ==
    /\ YOLO_API_URL = NotSet
    /\ GMAIL_USER = NotSet
    /\ GMAIL_PASSWORD = NotSet
    /\ RECIPIENT_EMAIL = NotSet
    /\ CONFIDENCE_THRESHOLD = 0
    /\ pillow \in RenderPillows
    /\ image_data \in {Picture("jpeg", 40, 30), Picture("jpeg", 64, 48)}
    /\ pc = "process_yolo_results"
    /\ url_i = 1
    /\ posts = <<>>
    /\ yolo_result \in
          {JDict([detections |-> JList(s)]) : s \in SeqsUpTo(RenderEntries, MaxDets)}
    /\ filtered_detections = <<>>
    /\ annotated_image = None
    /\ notify_calls = <<>>
    /\ msg = None
    /\ smtp = <<>>
    /\ email_sent = FALSE
    /\ response = None
    /\ suspended = None

\* app.py:95, annotated_image = process_yolo_results(image_data, yolo_result)
RenderCall ==
    /\ pc = "process_yolo_results"
    /\ annotated_image' = process_yolo_results(image_data, yolo_result)
    /\ pc' = "rendered"
    /\ UNCHANGED <<config, suspended, image_data, url_i, posts, yolo_result,
                   filtered_detections, notify_calls, msg, smtp, email_sent,
                   response>>

RenderNext == RenderCall

SpecRender == RenderInit /\ [][RenderNext]_vars

\* the accepted detections process_yolo_results was called with
RenderInput == yolo_result.dict["detections"].list

\* the value under bbox has exactly four entries
FourCoordinates(d) ==
    /\ "bbox" \in DOMAIN d.dict
    /\ DOMAIN d.dict["bbox"] = {"list"}
    /\ Len(d.dict["bbox"].list) = 4

\* process_yolo_results returned the bytes it was given
FellBack == annotated_image = image_data

(***************************************************************************)
(* C16: the label of a drawn box stays on the canvas: its filled           *)
(* background and its text lie within [0, width] x [0, height], wherever   *)
(* the clamped box is (also with its left edge at or near the right edge   *)
(* of the image, or its top at or near the bottom) and whatever the extent *)
(* of the text.                                                            *)
(***************************************************************************)
C16_LabelOnCanvas ==
    (pc = "rendered" /\ ~FellBack) =>
        \A k \in DOMAIN annotated_image.shapes :
            LET shape == annotated_image.shapes[k] IN
            /\ shape.label_bg[1] \in 0..image_data.width
            /\ shape.label_bg[3] \in 0..image_data.width
            /\ shape.label_bg[2] \in 0..image_data.height
            /\ shape.label_bg[4] \in 0..image_data.height
            /\ shape.text_at[1] \in 0..image_data.width
            /\ shape.text_at[1] + pillow.text_width \in 0..image_data.width
            /\ shape.text_at[2] \in 0..image_data.height
            /\ shape.text_at[2] + pillow.text_height \in 0..image_data.height

(***************************************************************************)
(* C17: every box that is drawn has its x coordinates in [0, width] and    *)
(* its y coordinates in [0, height], whatever integers the backend gave:   *)
(* each coordinate is the given one limited to the canvas.  A detection    *)
(* whose box has not exactly four coordinates gets no outline and no       *)
(* label, and every detection with four gets both.  Coordinates outside    *)
(* the canvas never make the rendering fall back to the bytes of the       *)
(* upload: it falls back only for a box whose corners, limited to the      *)
(* canvas, are not ordered, under a PIL that refuses such a box.           *)
(***************************************************************************)
C17_BoxesClamped ==
    pc = "rendered" =>
        /\ FellBack =>
              /\ pillow.ordered_only
              /\ \E i \in DOMAIN RenderInput : UnorderedBox(RenderInput[i])
        /\ ~FellBack =>
              /\ \A k \in DOMAIN annotated_image.shapes :
                    LET shape == annotated_image.shapes[k]
                        b == shape.detection.dict["bbox"].list
                    IN  /\ shape.outline[1] \in 0..image_data.width
                        /\ shape.outline[3] \in 0..image_data.width
                        /\ shape.outline[2] \in 0..image_data.height
                        /\ shape.outline[4] \in 0..image_data.height
                        /\ shape.outline =
                              <<Limited(b[1].num, image_data.width),
                                Limited(b[2].num, image_data.height),
                                Limited(b[3].num, image_data.width),
                                Limited(b[4].num, image_data.height)>>
              /\ [k \in DOMAIN annotated_image.shapes |->
                     annotated_image.shapes[k].detection]
                    = SelectSeq(RenderInput, FourCoordinates)

\* a box from left of the canvas to right of it and from above it to below
\* it was drawn along the border of the canvas
C17_Witness ==
    /\ pc = "rendered"
    /\ ~FellBack
    /\ image_data.width = 40
    /\ Len(annotated_image.shapes) = 1
    /\ annotated_image.shapes[1].detection.dict["bbox"] = Box(0 - 5, 0 - 5, 45, 45)
    /\ annotated_image.shapes[1].outline = <<0, 0, 40, 30>>

(***************************************************************************)
(* process_yolo_results on lists with more classes than colours: the       *)
(* classes come new or again in the list, starting at the first or at a    *)
(* later name, and one detection may come without a box.                   *)
(***************************************************************************)
ClassNames ==
    <<"person", "bicycle", "car", "motorcycle", "airplane", "bus", "train",
      "truck", "boat">>

RECURSIVE ClassNumbers(_, _)
\* pattern says of each detection whether its class is new in the list or
\* the first class again; used counts the classes so far
ClassNumbers(pattern, used) ==
    IF pattern = <<>> THEN <<>>
    ELSE IF Head(pattern) = "new" \/ used = 0
    THEN <<used + 1>> \o ClassNumbers(Tail(pattern), used + 1)
    ELSE <<1>> \o ClassNumbers(Tail(pattern), used)

ColourList(pattern, offset, dropped) ==
    LET numbers == ClassNumbers(pattern, 0) IN
    [i \in DOMAIN numbers |->
        DetBox(JStr(ClassNames[((numbers[i] - 1 + offset) % Len(ClassNames)) + 1]),
               JNum(ConfScale),
               IF i = dropped THEN JList(<<>>) ELSE GoodBox)]

ColourInit ==
    /\ YOLO_API_URL = NotSet
    /\ GMAIL_USER = NotSet
    /\ GMAIL_PASSWORD = NotSet
    /\ RECIPIENT_EMAIL = NotSet
    /\ CONFIDENCE_THRESHOLD = 0
    /\ pillow = Pillow(20, 8, TRUE)
    /\ image_data = Bytes("jpeg")
    /\ pc = "process_yolo_results"
    /\ url_i = 1
    /\ posts = <<>>
    /\ yolo_result \in
          {JDict([detections |-> JList(ColourList(pattern, offset, dropped))]) :
              pattern \in SeqsUpTo({"new", "again"}, Len(colors) + 2),
              offset \in {0, 3},
              dropped \in {0, 1, 2, Len(colors)}}
    /\ filtered_detections = <<>>
    /\ annotated_image = None
    /\ notify_calls = <<>>
    /\ msg = None
    /\ smtp = <<>>
    /\ email_sent = FALSE
    /\ response = None
    /\ suspended = None

ColourNext == RenderCall

SpecColours == ColourInit /\ [][ColourNext]_vars

(***************************************************************************)
(* C19: within one image every box and label of a class has the same       *)
(* colour; the j-th distinct class in the order the classes first occur in *)
(* the accepted list, counting also the detections whose box is dropped,   *)
(* has entry (j - 1) mod 8 of the palette of 8 colours, so the first 8     *)
(* distinct classes have pairwise different colours; the colours depend    *)
(* only on the order of the accepted list.                                 *)
(***************************************************************************)
ClassOf(d) == d.dict["class"]

\* the place of the class of d among the distinct classes of the list, in
\* the order they first occur
FirstSeenRank(list, d) ==
    LET first == CHOOSE p \in DOMAIN list :
                    /\ ClassOf(list[p]) = ClassOf(d)
                    /\ \A q \in 1..(p - 1) : ClassOf(list[q]) # ClassOf(d)
    IN  Cardinality({ClassOf(list[q]) : q \in 1..first})

C19_ClassColours ==
    pc = "rendered" =>
        /\ ~FellBack
        /\ Len(colors) = 8
        /\ \A a, b \in DOMAIN colors : colors[a] = colors[b] => a = b
        /\ \A k \in DOMAIN annotated_image.shapes :
              LET shape == annotated_image.shapes[k] IN
              shape.color =
                 colors[((FirstSeenRank(RenderInput, shape.detection) - 1) % 8) + 1]
        /\ \A k, l \in DOMAIN annotated_image.shapes :
              LET one == annotated_image.shapes[k]
                  two == annotated_image.shapes[l]
              IN  /\ ClassOf(one.detection) = ClassOf(two.detection)
                        => one.color = two.color
                  /\ ( /\ ClassOf(one.detection) # ClassOf(two.detection)
                       /\ FirstSeenRank(RenderInput, one.detection) <= 8
                       /\ FirstSeenRank(RenderInput, two.detection) <= 8 )
                        => one.color # two.color

\* nine classes, the second of them on a detection without a box: the third
\* class is drawn in the third colour and the ninth in the first colour again
C19_Witness ==
    /\ pc = "rendered"
    /\ ~FellBack
    /\ Len(RenderInput) = 9
    /\ Cardinality({ClassOf(RenderInput[q]) : q \in 1..9}) = 9
    /\ ~FourCoordinates(RenderInput[2])
    /\ Len(annotated_image.shapes) = 8
    /\ annotated_image.shapes[1].color = "red"
    /\ annotated_image.shapes[2].color = "green"
    /\ annotated_image.shapes[8].color = "red"
    /\ ClassOf(annotated_image.shapes[8].detection)
          # ClassOf(annotated_image.shapes[1].detection)

(***************************************************************************)
(* send_email_notification alone, app.py:299-421: one call with the result *)
(* upload_photo has after app.py:91-92 for a list of up to one detection   *)
(* more than the notification lists as low-confidence, with yolo_failed    *)
(* set or not, under a complete mail configuration and a mail server that  *)
(* takes the message.                                                      *)
(***************************************************************************)
NotifyEntries == {Det(JStr("person"), JNum(c)) : c \in Confidences}

\* app.py:91-92, yolo_result after filter_detections and the assignment of
\* the accepted list to 'detections'
AfterFilter(result) ==
    LET f == filter_detections(result)
    IN  Put(f.result, "detections", JList(f.value))

NotifyInit ==
    /\ YOLO_API_URL \in {NotSet, "http://yolo.lan:5001/detect"}
    /\ GMAIL_USER = "cam@gmail.com"
    /\ GMAIL_PASSWORD = "app-password"
    /\ RECIPIENT_EMAIL = "owner@example.org"
    /\ CONFIDENCE_THRESHOLD \in Confidences
    /\ pillow = Pillow(20, 8, TRUE)
    /\ image_data = Bytes("jpeg")
    /\ pc = "send_email_notification"
    /\ url_i = 1
    /\ posts = <<>>
    /\ yolo_result \in
          {AfterFilter(JDict([detections |-> JList(s)])) :
              s \in SeqsUpTo(NotifyEntries, LowConfLimit + 1)}
    /\ filtered_detections = yolo_result.dict["detections"].list
    /\ annotated_image = process_yolo_results(image_data, yolo_result)
    /\ notify_calls = <<>>
    /\ msg = None
    /\ smtp = <<>>
    /\ email_sent = FALSE
    /\ response = None
    /\ suspended = None

\* app.py:98 and 120, a call of send_email_notification
NotifyCall ==
    /\ pc = "send_email_notification"
    /\ \E yolo_failed \in BOOLEAN :
          LET r == send_email_notification(annotated_image, yolo_result,
                                           yolo_failed, "sent") IN
          /\ notify_calls' = Append(notify_calls,
                 [image |-> annotated_image, result |-> yolo_result,
                  yolo_failed |-> yolo_failed])
          /\ msg' = r.msg
          /\ smtp' = smtp \o r.sessions
          /\ email_sent' = r.ret
    /\ pc' = "notified"
    /\ UNCHANGED <<config, suspended, image_data, url_i, posts, yolo_result,
                   filtered_detections, annotated_image, response>>

NotifyNext == NotifyCall

SpecNotify == NotifyInit /\ [][NotifyNext]_vars

(***************************************************************************)
(* C12: which message is composed, in this order of priority.  (1) With    *)
(* the backend unavailable the message says that detection was bypassed    *)
(* and names the configured primary endpoint, also when a list of          *)
(* detections is passed along.  (2) Otherwise, with at least one accepted  *)
(* detection the subject states the number of accepted detections and the  *)
(* body lists every one of them.  (3) Otherwise the body says 'N objects   *)
(* detected but below threshold', N the length of the backend's list,      *)
(* exactly when that list is not empty, and 'No objects detected' exactly  *)
(* when it is empty.                                                       *)
(***************************************************************************)
C12_CaseSelection ==
    pc = "notified" =>
        /\ msg # None
        /\ LET accepted == SelectSeq(RawDetections, AtThreshold) IN
           /\ notify_calls[1].yolo_failed =>
                 /\ msg.Subject = [kind |-> "Motion Detected (YOLO Offline)"]
                 /\ msg.Body.kind = "MOTION DETECTION ALERT"
                 /\ msg.Body.processing = "Bypassed"
                 /\ msg.Body.primary = YOLO_API_URL
           /\ (~notify_calls[1].yolo_failed /\ accepted # <<>>) =>
                 /\ msg.Subject = [kind |-> "Objects Detected", found |-> Len(accepted)]
                 /\ msg.Body.kind = "OBJECT DETECTION REPORT"
                 /\ msg.Body.text = "DETECTED OBJECTS"
                 /\ msg.Body.listed = accepted
           /\ (~notify_calls[1].yolo_failed /\ accepted = <<>>) =>
                 /\ msg.Subject = [kind |-> "Motion Detected (No objects)"]
                 /\ msg.Body.kind = "OBJECT DETECTION REPORT"
                 /\ msg.Body.text = "objects detected but below threshold"
                       <=> RawDetections # <<>>
                 /\ msg.Body.text = "No objects detected in this image"
                       <=> RawDetections = <<>>
                 /\ msg.Body.total = Len(RawDetections)

\* the call said the backend was unavailable and passed a result with an
\* accepted detection: the message is the one of the unavailable backend
C12_Witness ==
    /\ pc = "notified"
    /\ notify_calls[1].yolo_failed
    /\ notify_calls[1].result.dict["detections"].list # <<>>
    /\ YOLO_API_URL # NotSet
    /\ msg # None
    /\ msg.Subject.kind = "Motion Detected (YOLO Offline)"
    /\ msg.Body.primary = YOLO_API_URL

(***************************************************************************)
(* C13: the low-confidence part of the notification lists min(5, number of *)
(* rejected detections) entries, all of them rejected detections, and they *)
(* are the rejected detections of highest confidence: no rejected          *)
(* detection that is left out has a confidence strictly above that of a    *)
(* listed one.                                                             *)
(***************************************************************************)
C13_LowConfSample ==
    (pc = "notified" /\ ~notify_calls[1].yolo_failed) =>
        LET rejected == SelectSeq(RawDetections, BelowThreshold)
            listed == msg.Body.low_conf
        IN  /\ Len(listed) = IF Len(rejected) < 5 THEN Len(rejected) ELSE 5
            /\ \A k \in DOMAIN listed :
                  Count(listed, listed[k]) <= Count(rejected, listed[k])
            /\ \A i \in DOMAIN rejected :
                  Count(rejected, rejected[i]) > Count(listed, rejected[i]) =>
                      \A k \in DOMAIN listed :
                          EffConf(rejected[i]) <= EffConf(listed[k])

(***************************************************************************)
(* Two uploads in progress at once, app.py:479 (the server app.run starts  *)
(* handles each request in a thread of its own).  One request runs, the    *)
(* other is suspended with its locals; Switch lets the other one run, at   *)
(* any point.  What the requests share is the configuration.               *)
(***************************************************************************)
\* the locals of the request that runs
Locals ==
    [image_data |-> image_data, pc |-> pc, url_i |-> url_i, posts |-> posts,
     yolo_result |-> yolo_result, filtered_detections |-> filtered_detections,
     annotated_image |-> annotated_image, notify_calls |-> notify_calls,
     msg |-> msg, smtp |-> smtp, email_sent |-> email_sent,
     response |-> response]

\* the locals of a request that has arrived with the upload img
Arrived(img) ==
    [image_data |-> img, pc |-> "upload", url_i |-> 1, posts |-> <<>>,
     yolo_result |-> None, filtered_detections |-> <<>>,
     annotated_image |-> None, notify_calls |-> <<>>,
     msg |-> None, smtp |-> <<>>, email_sent |-> FALSE,
     response |-> None]

TwoUploads == {Bytes("jpeg"), Bytes("png_rgba")}

\* what an endpoint answers with status 200 while two requests are served
TwoBodies ==
    {Unparseable,
     JDict([detections |-> JList(<<>>)]),
     JDict([detections |-> JList(<<Det(JStr("person"), JNum(ConfScale))>>)])}

TwoInit ==
    /\ YOLO_API_URL = NotSet
    /\ GMAIL_USER = "cam@gmail.com"
    /\ GMAIL_PASSWORD = "app-password"
    /\ RECIPIENT_EMAIL = "owner@example.org"
    /\ CONFIDENCE_THRESHOLD = ConfScale
    /\ pillow = Pillow(20, 8, TRUE)
    /\ image_data \in TwoUploads
    /\ pc = "upload"
    /\ url_i = 1
    /\ posts = <<>>
    /\ yolo_result = None
    /\ filtered_detections = <<>>
    /\ annotated_image = None
    /\ notify_calls = <<>>
    /\ msg = None
    /\ smtp = <<>>
    /\ email_sent = FALSE
    /\ response = None
    /\ suspended \in {[id |-> 2, locals |-> Arrived(img)] : img \in TwoUploads}

\* the running request is suspended and the suspended one runs
Switch ==
    /\ suspended # None
    /\ suspended' = [id |-> 3 - suspended.id, locals |-> Locals]
    /\ image_data' = suspended.locals.image_data
    /\ pc' = suspended.locals.pc
    /\ url_i' = suspended.locals.url_i
    /\ posts' = suspended.locals.posts
    /\ yolo_result' = suspended.locals.yolo_result
    /\ filtered_detections' = suspended.locals.filtered_detections
    /\ annotated_image' = suspended.locals.annotated_image
    /\ notify_calls' = suspended.locals.notify_calls
    /\ msg' = suspended.locals.msg
    /\ smtp' = suspended.locals.smtp
    /\ email_sent' = suspended.locals.email_sent
    /\ response' = suspended.locals.response
    /\ UNCHANGED config

Post200Two == \E body \in TwoBodies : Post200With(body)

TwoNext ==
    \/ ReceiveValid
    \/ PostRaises
    \/ PostStatus
    \/ Post200Two
    \/ AllFailed
    \/ Detected
    \/ NotifyDetected
    \/ NotifyOffline
    \/ Switch

SpecTwo == TwoInit /\ [][TwoNext]_vars

(***************************************************************************)
(* C20: requests in progress at once are isolated, in every interleaving   *)
(* of their steps.  No step changes the configuration (the endpoint        *)
(* setting, the threshold, the mail settings); a step of the running       *)
(* request leaves everything of the suspended request as it is.  What a    *)
(* request notifies and answers is made of its own upload, of the answer   *)
(* its own detection requests got and of its own SMTP session; two         *)
(* requests with the same upload, the same answers and the same outcome of *)
(* the session end with the same notification and the same response.       *)
(***************************************************************************)
\* the two requests
Requests == {Locals, suspended.locals}

\* what the request r notified and answered is made of what r received
InOwnTerms(r) ==
    /\ \A i \in DOMAIN r.notify_calls :
          LET call == r.notify_calls[i] IN
          /\ call.yolo_failed => call.image = r.image_data
          /\ ~call.yolo_failed =>
                /\ call.image = r.annotated_image
                /\ call.result = r.yolo_result
    /\ r.annotated_image # None =>
          \/ r.annotated_image = r.image_data
          \/ /\ r.annotated_image.fmt = "annotated"
             /\ r.annotated_image.of = r.image_data.fmt
             /\ r.annotated_image.summary = Len(r.filtered_detections)
             /\ r.annotated_image.boxes = r.filtered_detections
    /\ r.filtered_detections # <<>> =>
          IsSubseq(r.filtered_detections, r.yolo_result.dict["all_detections"].list)
    /\ r.msg # None =>
          /\ Len(r.notify_calls) = 1
          /\ r.msg.attachment = r.notify_calls[1].image
          /\ \A i \in DOMAIN r.smtp : r.smtp[i].sendmail \in {<<>>, <<r.msg>>}
    /\ (r.pc = "done" /\ r.response.code = 200) =>
          /\ Len(r.notify_calls) = 1
          /\ r.response.detections = r.filtered_detections
          /\ r.response.email_sent
                = (\E i \in DOMAIN r.smtp : r.smtp[i].outcome = "sent")

\* what the request r received: its upload, what its detection requests got
\* and how its SMTP session went
Received(r) ==
    [upload |-> r.image_data,
     requests |-> r.posts,
     answer |-> r.yolo_result,
     session |-> [i \in DOMAIN r.smtp |-> r.smtp[i].outcome]]

C20_Isolated ==
    /\ \A r \in Requests : InOwnTerms(r)
    /\ \A r, q \in Requests :
          (r.pc = "done" /\ q.pc = "done" /\ Received(r) = Received(q)) =>
              /\ r.response = q.response
              /\ r.msg = q.msg
              /\ r.notify_calls = q.notify_calls

C20_Step ==
    /\ UNCHANGED <<YOLO_API_URL, GMAIL_USER, GMAIL_PASSWORD, RECIPIENT_EMAIL,
                   CONFIDENCE_THRESHOLD>>
    /\ \/ suspended' = suspended
       \/ /\ suspended'.id # suspended.id
          /\ suspended'.locals = Locals
          /\ Locals' = suspended.locals

C20_RequestIsolation == []C20_Isolated /\ [][C20_Step]_vars

\* the first request, a JPEG, stopped before its notification, and the
\* second, a PNG, ran from its arrival to its response meanwhile; both went
\* through detection and each notifies its own image
C20_Witness ==
    /\ pc = "done"
    /\ suspended.id = 1
    /\ suspended.locals.pc = "notify"
    /\ suspended.locals.image_data = Bytes("jpeg")
    /\ image_data = Bytes("png_rgba")
    /\ response.code = 200
    /\ notify_calls[1].image = image_data
    /\ suspended.locals.annotated_image.fmt = "annotated"

(***************************************************************************)
(* upload_photo from the return of send_to_yolo on, app.py:89-117: the     *)
(* first endpoint has answered with a list of detections, some at or above *)
(* the threshold and some below, some with a box of four coordinates and   *)
(* some with a box of three or none; the mail configuration is complete.   *)
(***************************************************************************)
CountEntries ==
    {Det(JStr("person"), JNum(c)) : c \in Confidences}
        \cup {DetBox(JStr("person"), JNum(ConfScale),
                     JList(<<JNum(10), JNum(10), JNum(35)>>)),
              DetBox(JStr("person"), JNum(ConfScale), JList(<<>>))}

CountInit ==
    /\ YOLO_API_URL = NotSet
    /\ GMAIL_USER = "cam@gmail.com"
    /\ GMAIL_PASSWORD = "app-password"
    /\ RECIPIENT_EMAIL = "owner@example.org"
    /\ CONFIDENCE_THRESHOLD \in Confidences
    /\ pillow = Pillow(20, 8, TRUE)
    /\ image_data \in {Bytes("jpeg"), Bytes("png_rgba")}
    /\ pc = "process"
    /\ url_i = 1
    /\ posts = <<[url |-> urls_to_try[1], pos |-> 1, ok |-> TRUE]>>
    /\ yolo_result \in
          {JDict([detections |-> JList(s)]) : s \in SeqsUpTo(CountEntries, MaxLen) \ {<<>>}}
              \cup {JDict([status |-> JStr("ok"), detections |-> JList(<<>>)])}
    /\ filtered_detections = <<>>
    /\ annotated_image = None
    /\ notify_calls = <<>>
    /\ msg = None
    /\ smtp = <<>>
    /\ email_sent = FALSE
    /\ response = None
    /\ suspended = None

CountNext ==
    \/ Detected
    \/ NotifyDetected

SpecCounts == CountInit /\ [][CountNext]_vars

(***************************************************************************)
(* C21: on the detected path the counts an upload shows agree: the number  *)
(* of objects in the subject of the notification ('No objects' for none),  *)
(* the count of high-confidence objects in its body, the count in the name *)
(* of the attachment, the count in the summary drawn on the image and      *)
(* detection_count of the response are all the number of accepted          *)
(* detections, also when an accepted detection has a box that is not drawn.*)
(* The summary is on the image when the rendering did not fall back, and   *)
(* it did not for a JPEG upload; the message was composed.                 *)
(***************************************************************************)
C21_CountsAgree ==
    (pc = "done" /\ DetectedPath) =>
        LET n == Len(SelectSeq(RawDetections, AtThreshold)) IN
        /\ response.detection_count = n
        /\ msg # None
        /\ msg.Subject = IF n > 0
                         THEN [kind |-> "Objects Detected", found |-> n]
                         ELSE [kind |-> "Motion Detected (No objects)"]
        /\ msg.Body.high = n
        /\ msg.filename = [kind |-> "detection", obj |-> n]
        /\ image_data.fmt = "jpeg" => ~FellBack
        /\ ~FellBack =>
              /\ annotated_image.summary = n
              /\ msg.attachment.summary = n

\* three detections, two accepted, one of these with a box of three
\* coordinates: one box is drawn and every count is two
C21_Witness ==
    /\ pc = "done"
    /\ DetectedPath
    /\ Len(RawDetections) = 3
    /\ Len(filtered_detections) = 2
    /\ \E i \in DOMAIN filtered_detections : ~FourCoordinates(filtered_detections[i])
    /\ ~FellBack
    /\ Len(annotated_image.shapes) = 1
    /\ annotated_image.summary = 2
    /\ msg.Subject = [kind |-> "Objects Detected", found |-> 2]
    /\ msg.Body.high = 2
    /\ msg.filename.obj = 2
    /\ response.detection_count = 2

====
